---- MODULE Spec2Model ----
(***************************************************************************)
(* A model of the GC chromatogram analyzer: the peak detector              *)
(* (ChromatogramProcessor.detect_peaks_and_areas), the trace summarizer    *)
(* (summarize_trace), the file pipeline (process_cdf_file) and the         *)
(* Streamlit entry point (main).                                           *)
(*                                                                         *)
(* Units.  Intensities are integer counts.  Times are integers in          *)
(* thousandths of a second.  Every value the code rounds with round(v, 2)  *)
(* is kept in hundredths.  Percentiles are kept times 100, so that numpy's *)
(* linear interpolation between two order statistics is exact.             *)
(* Indices are 0-based as in the source: At(s, i) reads s[i].              *)
(***************************************************************************)
EXTENDS Integers, Sequences, FiniteSets, TLC

VARIABLES
  pc,            \* position of the running call
  config,        \* the peak detection settings of the Config class
  runs,          \* the local state of each of the concurrent pipeline runs
  uploaded_file, \* the file object returned by st.file_uploader, or NoUpload
  metadata,      \* the text of the metadata area
  time,          \* the time array in use
  intensity,     \* the intensity array in use
  filename,      \* the file name handed to summarize_trace
  peaks_info,    \* the peak list returned by detect_peaks_and_areas
  input_text,    \* the text returned by process_cdf_file / summarize_trace
  json_files,    \* files under json_output_dir
  temp_files,    \* files under temp_upload_dir
  rendered,      \* what the UI has rendered, in order
  chain_log,     \* RAG chains created and invoked, in order
  diagnosis      \* the answer of the diagnosis chain

vars == <<pc, config, runs, uploaded_file, metadata, time, intensity, filename, peaks_info,
          input_text, json_files, temp_files, rendered, chain_log, diagnosis>>

---------------------------------------------------------------------------
(* Bounds of the model *)

\* intensities range over 0..MaxVal
MaxVal == 3
\* densely enumerated traces have at most MaxHead samples
MaxHead == 4
\* len(time) differs from len(intensity) by at most MaxSkew
MaxSkew == 1
\* length of the zero-padded traces (20 * 0.95 and 20 * 0.90 are whole)
LongLen == 21
\* length of the sparse spike traces (40 * 0.95 and 40 * 0.90 are whole)
SpikeLen == 41
\* spikes of the sparse traces sit at indices 1..MaxSpikePos
MaxSpikePos == 7
\* sampling periods, in thousandths of a second
FineStep == 1
CoarseStep == 1000
\* peak lists handed to summarize_trace directly have at most MaxPeaks peaks
MaxPeaks == 3

---------------------------------------------------------------------------
(* Program constants: the literals of detect_peaks_and_areas and main *)

HeightPercentile == 95
ProminencePercentile == 90
PeakDistance == 5
\* main cuts the report to this many characters
MaxInputChars == 2000

\* Config: the peak detection settings, as the class defines them
DefaultConfig ==
  [ HEIGHT_PERCENTILE |-> 95, PROMINENCE_PERCENTILE |-> 90, MIN_PEAK_DISTANCE |-> 5 ]

\* no concurrent pipeline runs
NoRuns == <<>>

---------------------------------------------------------------------------
(* Arithmetic helpers *)

At(s, i) == s[i + 1]

Max2(a, b) == IF a >= b THEN a ELSE b
Min2(a, b) == IF a <= b THEN a ELSE b
Abs(a) == IF a >= 0 THEN a ELSE -a

\* np.sort(s)[k]: the k-th order statistic (0-based)
KthSmallest(s, k) ==
  CHOOSE v \in {s[i] : i \in DOMAIN s} :
    /\ Cardinality({i \in DOMAIN s : s[i] < v}) <= k
    /\ k < Cardinality({i \in DOMAIN s : s[i] <= v})

\* 100 * np.percentile(s, q), method "linear": virtual index (n-1)*q/100,
\* lower order statistic plus the fraction of the gap to the next one
Percentile100(s, q) ==
  LET n == Len(s)
      pos == (n - 1) * q
      lo == pos \div 100
      rem == pos % 100
      a == KthSmallest(s, lo)
      b == KthSmallest(s, Min2(lo + 1, n - 1))
  IN 100 * a + rem * (b - a)

\* round to the nearest integer quotient num/den, ties to even (np.round)
RoundHalfEven(num, den) ==
  LET q == num \div den
      r == num % den
  IN IF 2 * r < den THEN q
     ELSE IF 2 * r > den THEN q + 1
     ELSE IF q % 2 = 0 THEN q ELSE q + 1

\* round(num/den, 2), in hundredths
Round2(num, den) == RoundHalfEven(100 * num, den)

---------------------------------------------------------------------------
(* scipy.signal.find_peaks as called at processing.py:62-67 *)

RECURSIVE PlateauEnd(_, _, _)
\* first index ahead of i whose sample differs from x[i], at most the last
PlateauEnd(x, i, ahead) ==
  IF ahead < Len(x) - 1 /\ At(x, ahead) = At(x, i)
  THEN PlateauEnd(x, i, ahead + 1)
  ELSE ahead

\* _local_maxima_1d: the scan pointer i runs over 1..len-2; where the sample
\* rises at i, the plateau from i is followed to its end, and its midpoint
\* is a maximum when the sample after it falls.  The first and last sample
\* are never maxima, nor is a plateau that reaches the last sample.
LocalMaxima(x) ==
  { (i + PlateauEnd(x, i, i + 1) - 1) \div 2 :
      i \in { j \in 1..(Len(x) - 2) :
                /\ At(x, j - 1) < At(x, j)
                /\ At(x, PlateauEnd(x, j, j + 1)) < At(x, j) } }

\* _select_by_property with pmin only: pmin <= property (inclusive)
MeetsThreshold(value100, threshold100) == threshold100 <= value100

HeightThreshold100(x) == Percentile100(x, HeightPercentile)
ProminenceThreshold100(x) == Percentile100(x, ProminencePercentile)

\* maxima kept by the height condition
HeightSelected(x) ==
  {p \in LocalMaxima(x) : MeetsThreshold(100 * At(x, p), HeightThreshold100(x))}

RECURSIVE SelectByPeakDistanceLowestFirst(_, _, _, _)
\* a priority order turned round: the lowest peak is visited first
SelectByPeakDistanceLowestFirst(x, peaks, todo, keep) ==
  IF todo = {} THEN {keep}
  ELSE LET top == {p \in todo : \A q \in todo : At(x, p) <= At(x, q)}
       IN UNION { SelectByPeakDistanceLowestFirst(x, peaks, todo \ {p},
                    IF p \in keep
                    THEN keep \ {k \in peaks : k # p /\ Abs(k - p) < PeakDistance}
                    ELSE keep) : p \in top }

RECURSIVE SelectByPeakDistance(_, _, _, _)
\* _select_by_peak_distance: peaks are visited from the highest priority
\* (height) down; a visited peak that is still kept removes every peak
\* closer than the distance.  np.argsort leaves the order of equal heights
\* open, so the result is the set of keep-sets over all such orders.
SelectByPeakDistance(x, peaks, todo, keep) ==
  IF todo = {} THEN {keep}
  ELSE LET top == {p \in todo : \A q \in todo : At(x, q) <= At(x, p)}
       IN UNION { SelectByPeakDistance(x, peaks, todo \ {p},
                    IF p \in keep
                    THEN keep \ {k \in peaks : k # p /\ Abs(k - p) < PeakDistance}
                    ELSE keep) : p \in top }

\* the keep-sets the distance condition can produce
DistanceSelections(x) ==
  SelectByPeakDistance(x, HeightSelected(x), HeightSelected(x), HeightSelected(x))

\* _peak_prominences, the window of a peak: the samples around it up to,
\* not including, the nearest sample on each side that exceeds the peak
LeftBound(x, peak) ==
  LET higher == {i \in 0..peak : At(x, i) > At(x, peak)}
  IN IF higher = {} THEN 0
     ELSE 1 + CHOOSE i \in higher : \A k \in higher : k <= i

RightBound(x, peak) ==
  LET higher == {i \in peak..(Len(x) - 1) : At(x, i) > At(x, peak)}
  IN IF higher = {} THEN Len(x) - 1
     ELSE (CHOOSE i \in higher : \A k \in higher : i <= k) - 1

\* the base on each side: the lowest sample of the window on that side, the
\* one nearest to the peak where several are equally low (the scan walks
\* away from the peak and moves the base only to a strictly lower sample)
LeftBase(x, peak) ==
  LET W == LeftBound(x, peak)..peak
  IN CHOOSE b \in W : \A k \in W :
       At(x, b) <= At(x, k) /\ (At(x, k) = At(x, b) => k <= b)

RightBase(x, peak) ==
  LET W == peak..RightBound(x, peak)
  IN CHOOSE b \in W : \A k \in W :
       At(x, b) <= At(x, k) /\ (At(x, k) = At(x, b) => b <= k)

\* height of the peak above the higher of its two bases
Prominence(x, peak) ==
  At(x, peak) - Max2(At(x, LeftBase(x, peak)), At(x, RightBase(x, peak)))

\* peaks of a keep-set that also pass the prominence condition
ProminenceSelected(x, kept) ==
  {p \in kept : MeetsThreshold(100 * Prominence(x, p), ProminenceThreshold100(x))}

\* the peak arrays find_peaks can return for x
FindPeaks(x) == {ProminenceSelected(x, kept) : kept \in DistanceSelections(x)}

---------------------------------------------------------------------------
(* scipy.signal.peak_widths(intensity, [peak_idx], rel_height=0.5) *)

\* twice the evaluation height x[peak] - prominence * 0.5
WidthHeight2(x, peak) == 2 * At(x, peak) - Prominence(x, peak)

RECURSIVE LeftCross(_, _, _)
\* walk left from the peak while above the evaluation height
LeftCross(x, peak, i) ==
  IF LeftBase(x, peak) < i /\ WidthHeight2(x, peak) < 2 * At(x, i)
  THEN LeftCross(x, peak, i - 1)
  ELSE i

RECURSIVE RightCross(_, _, _)
RightCross(x, peak, i) ==
  IF i < RightBase(x, peak) /\ WidthHeight2(x, peak) < 2 * At(x, i)
  THEN RightCross(x, peak, i + 1)
  ELSE i

\* int(np.floor(left_ips[0])): the crossing sample plus the interpolated
\* fraction (height - x[i]) / (x[i+1] - x[i]), floored
FloorLeftIps(x, peak) ==
  LET i == LeftCross(x, peak, peak)
      h2 == WidthHeight2(x, peak)
  IN IF 2 * At(x, i) < h2
     THEN i + ((h2 - 2 * At(x, i)) \div (2 * (At(x, i + 1) - At(x, i))))
     ELSE i

\* np.floor in place of np.ceil on the right boundary
FloorRightIps(x, peak) ==
  LET i == RightCross(x, peak, peak)
      h2 == WidthHeight2(x, peak)
  IN IF 2 * At(x, i) < h2 THEN i - 1 ELSE i

\* int(np.ceil(right_ips[0])): the crossing sample minus the interpolated
\* fraction (height - x[i]) / (x[i-1] - x[i]), ceiled
CeilRightIps(x, peak) ==
  LET i == RightCross(x, peak, peak)
      h2 == WidthHeight2(x, peak)
  IN IF 2 * At(x, i) < h2
     THEN i - ((h2 - 2 * At(x, i)) \div (2 * (At(x, i - 1) - At(x, i))))
     ELSE i

---------------------------------------------------------------------------
(* ChromatogramProcessor.detect_peaks_and_areas *)

\* a one-sample trace refused like an empty one
DetectRaisesShortTrace(t, x) == Len(x) <= 1

\* np.max(intensity) at the first logging line raises ValueError on a
\* zero-size array; nothing else in the method raises
DetectRaises(t, x) == Len(x) = 0

\* start_idx = max(0, min(len(time) - 1, int(np.floor(left))))
StartIdx(t, x, peak) == Max2(0, Min2(Len(t) - 1, FloorLeftIps(x, peak)))

\* end_idx = max(0, min(len(time) - 1, int(np.ceil(right))))
EndIdx(t, x, peak) == Max2(0, Min2(Len(t) - 1, CeilRightIps(x, peak)))

\* the two `continue` guards of the loop over the peaks
Skipped(t, x, peak) ==
  \/ peak >= Len(t)
  \/ StartIdx(t, x, peak) >= EndIdx(t, x, peak)
  \/ EndIdx(t, x, peak) >= Len(t)

RECURSIVE Trapezoid2(_, _, _, _)
\* twice np.trapezoid(intensity[a:b+1], time[a:b+1])
Trapezoid2(t, x, a, b) ==
  IF a >= b THEN 0
  ELSE (At(t, a + 1) - At(t, a)) * (At(x, a) + At(x, a + 1))
       + Trapezoid2(t, x, a + 1, b)

\* the dictionary appended for one peak; rounded values are in hundredths
PeakRecord(t, x, peak) ==
  [ peak_index |-> peak,
    height |-> Round2(At(x, peak), 1),
    retention_time |-> Round2(At(t, peak), 1000),
    area |-> Round2(Trapezoid2(t, x, StartIdx(t, x, peak), EndIdx(t, x, peak)), 2000),
    start_time |-> Round2(At(t, StartIdx(t, x, peak)), 1000),
    end_time |-> Round2(At(t, EndIdx(t, x, peak)), 1000) ]

RECURSIVE Ascending(_)
\* a set of indices as the ascending array find_peaks returns
Ascending(S) ==
  IF S = {} THEN <<>>
  ELSE LET m == CHOOSE a \in S : \A b \in S : a <= b
       IN <<m>> \o Ascending(S \ {m})

RECURSIVE CollectResults(_, _, _)
\* the loop over enumerate(peaks): skip or append, in index order
CollectResults(t, x, peaks) ==
  IF peaks = <<>> THEN <<>>
  ELSE IF Skipped(t, x, Head(peaks))
       THEN CollectResults(t, x, Tail(peaks))
       ELSE <<PeakRecord(t, x, Head(peaks))>> \o CollectResults(t, x, Tail(peaks))

\* the lists detect_peaks_and_areas can return for (time, intensity)
DetectPeaksAndAreas(t, x) ==
  {CollectResults(t, x, Ascending(peaks)) : peaks \in FindPeaks(x)}

---------------------------------------------------------------------------
(* ChromatogramProcessor.summarize_trace *)

RECURSIVE MaxOf(_)
\* np.max(intensity) of a non-empty trace
MaxOf(x) == IF Len(x) = 1 THEN x[1] ELSE Max2(x[1], MaxOf(Tail(x)))

\* 100 * np.median(intensity): the middle order statistic, or the mean of
\* the two middle ones
Median100(x) ==
  LET n == Len(x)
  IN IF n % 2 = 1 THEN 100 * KthSmallest(x, n \div 2)
     ELSE 50 * (KthSmallest(x, n \div 2 - 1) + KthSmallest(x, n \div 2))

\* np.max and np.median raise on a zero-size intensity array
SummarizeRaises(x) == Len(x) = 0

\* filename.replace(".cdf", ".json"): every ".cdf" piece of the name, and
\* only pieces spelled exactly ".cdf", become ".json"
JsonFilename(fname) ==
  [i \in DOMAIN fname |-> IF fname[i] = ".cdf" THEN ".json" ELSE fname[i]]

\* list(zip(time.tolist(), intensity.tolist()))
TraceData(t, x) == [i \in 1..Min2(Len(t), Len(x)) |-> <<t[i], x[i]>>]

\* the json_data dictionary dumped to the file
JsonData(t, x, peaks, fname) ==
  [ file_name |-> fname,
    total_peaks |-> Len(peaks),
    max_intensity |-> MaxOf(x),
    baseline_intensity |-> Median100(x),
    peaks |-> peaks,
    trace_data |-> TraceData(t, x) ]

\* open(json_path, "w") + json.dump: the file of that name is replaced
WriteFile(files, name, data) ==
  {f \in files : f.name # name} \cup {[name |-> name, data |-> data]}

RECURSIVE InsertByHeightBeforeEqual(_, _)
\* a ranking that places p in front of the peaks of its own height
InsertByHeightBeforeEqual(ranked, p) ==
  IF ranked = <<>> THEN <<p>>
  ELSE IF Head(ranked).height > p.height
       THEN <<Head(ranked)>> \o InsertByHeightBeforeEqual(Tail(ranked), p)
       ELSE <<p>> \o ranked

RECURSIVE InsertByHeight(_, _)
\* place p behind every peak at least as high (equal heights keep their order)
InsertByHeight(ranked, p) ==
  IF ranked = <<>> THEN <<p>>
  ELSE IF Head(ranked).height >= p.height
       THEN <<Head(ranked)>> \o InsertByHeight(Tail(ranked), p)
       ELSE <<p>> \o ranked

RECURSIVE RankInto(_, _)
RankInto(ranked, peaks) ==
  IF peaks = <<>> THEN ranked
  ELSE RankInto(InsertByHeight(ranked, Head(peaks)), Tail(peaks))

\* sorted(peaks_info, key=lambda p: p['height'], reverse=True)
SortedByHeight(peaks) == RankInto(<<>>, peaks)

\* "- Peak at {retention_time}s | Area: {area} | Height: {height}"
PeakLine(p) == <<p.retention_time, p.area, p.height>>

\* the report: title with the file name, the totals, one line per peak
SummaryText(t, x, peaks, fname) ==
  [ kind |-> "summary",
    title |-> fname,
    total |-> Len(peaks),
    max_intensity |-> 100 * MaxOf(x),
    baseline |-> Median100(x),
    lines |-> [i \in 1..Len(peaks) |-> PeakLine(SortedByHeight(peaks)[i])] ]

---------------------------------------------------------------------------
(* ChromatogramProcessor.process_cdf_file *)

\* return "No peaks found."
NoPeaksText == [kind |-> "nopeaks"]

\* the early return left out
NeverShortCircuits(peaks) == FALSE

\* `if not peaks_info`: the early return that skips summarize_trace
ShortCircuits(peaks) == peaks = <<>>

\* os.path.join(directory, name)
JoinPath(dir, name) == <<dir, name>>

\* os.path.basename(file_path)
Basename(path) == path[2]

\* what process_cdf_file does once the arrays are loaded and detection has
\* returned peaks: the text it returns and the files under json_output_dir
ProcessResult(t, x, peaks, path, files) ==
  IF ShortCircuits(peaks)
  THEN [text |-> NoPeaksText, files |-> files]
  ELSE [text |-> SummaryText(t, x, peaks, Basename(path)),
        files |-> WriteFile(files, JoinPath("json_output", JsonFilename(Basename(path))),
                            JsonData(t, x, peaks, Basename(path)))]

---------------------------------------------------------------------------
(* Inputs *)

NoText == [kind |-> "none"]

\* every trace of n samples with intensities 0..MaxVal
DenseTraces(n) == [1..n -> 0..MaxVal]

\* h followed by zeros up to n samples
Pad(h, n) == [i \in 1..n |-> IF i <= Len(h) THEN h[i] ELSE 0]

SpikePositions ==
  {q \in (1..MaxSpikePos) \X (1..MaxSpikePos) \X (1..MaxSpikePos) :
     q[1] < q[2] /\ q[2] < q[3]}

SpikeHeights == (0..MaxVal) \X (0..MaxVal) \X (0..MaxVal)

\* zeros with up to three spikes of heights hs at the indices pos
SpikeTrace(pos, hs) ==
  [i \in 1..SpikeLen |->
     IF i - 1 = pos[1] THEN hs[1]
     ELSE IF i - 1 = pos[2] THEN hs[2]
     ELSE IF i - 1 = pos[3] THEN hs[3] ELSE 0]

\* n strictly increasing sample times from 0 with alternating periods d1, d2
TimeGrid(n, d1, d2) == [i \in 1..n |-> (i \div 2) * d1 + ((i - 1) \div 2) * d2]

TimeGrids(n) ==
  { TimeGrid(n, FineStep, FineStep), TimeGrid(n, CoarseStep, CoarseStep),
    TimeGrid(n, FineStep, CoarseStep) }

TimeLens(n) == {m \in (n - MaxSkew)..(n + MaxSkew) : m >= 0}

---------------------------------------------------------------------------
(* Direct calls of detect_peaks_and_areas *)

NoUpload == [name |-> <<>>, readable |-> FALSE, time |-> <<>>, intensity |-> <<>>]

InitDetect ==
  /\ pc = "detect_call"
  /\ config = DefaultConfig
  /\ runs = NoRuns
  /\ \/ \E n \in 0..MaxHead : \E x \in DenseTraces(n) :
          \E m \in TimeLens(n) : \E t \in TimeGrids(m) :
            time = t /\ intensity = x
     \/ \E n \in 1..MaxHead : \E h \in DenseTraces(n) :
          /\ time = TimeGrid(LongLen, CoarseStep, CoarseStep)
          /\ intensity = Pad(h, LongLen)
     \/ \E pos \in SpikePositions : \E hs \in SpikeHeights :
          /\ time = TimeGrid(SpikeLen, CoarseStep, CoarseStep)
          /\ intensity = SpikeTrace(pos, hs)
  /\ uploaded_file = NoUpload
  /\ metadata = ""
  /\ filename = <<>>
  /\ peaks_info = <<>>
  /\ input_text = NoText
  /\ json_files = {}
  /\ temp_files = {}
  /\ rendered = <<>>
  /\ chain_log = <<>>
  /\ diagnosis = "none"

DetectCall ==
  /\ pc = "detect_call"
  /\ IF DetectRaises(time, intensity)
     THEN pc' = "detect_raised" /\ UNCHANGED peaks_info
     ELSE /\ pc' = "detect_returned"
          /\ peaks_info' \in DetectPeaksAndAreas(time, intensity)
  /\ UNCHANGED <<config, runs, uploaded_file, metadata, time, intensity, filename, input_text,
                 json_files, temp_files, rendered, chain_log, diagnosis>>

NextDetect == DetectCall

SpecDetect == InitDetect /\ [][NextDetect]_vars

---------------------------------------------------------------------------
(* Calls of detect_peaks_and_areas after a change of the Config settings *)

\* the settings with one attribute assigned a new value (or the same one)
ConfigOverrides ==
  { [DefaultConfig EXCEPT !.HEIGHT_PERCENTILE = v] : v \in {95, 100} }
    \cup { [DefaultConfig EXCEPT !.PROMINENCE_PERCENTILE = v] : v \in {90, 100} }
    \cup { [DefaultConfig EXCEPT !.MIN_PEAK_DISTANCE = v] : v \in {3, 5, 6} }

InitConfig ==
  /\ pc = "config_default"
  /\ config = DefaultConfig
  /\ runs = NoRuns
  /\ \E pos \in SpikePositions : \E hs \in SpikeHeights :
       /\ time = TimeGrid(SpikeLen, CoarseStep, CoarseStep)
       /\ intensity = SpikeTrace(pos, hs)
  /\ uploaded_file = NoUpload
  /\ metadata = ""
  /\ filename = <<>>
  /\ peaks_info = <<>>
  /\ input_text = NoText
  /\ json_files = {}
  /\ temp_files = {}
  /\ rendered = <<>>
  /\ chain_log = <<>>
  /\ diagnosis = "none"

\* Config.<SETTING> = value, before the next call of the detector
OverrideConfig ==
  /\ pc = "config_default"
  /\ config' \in ConfigOverrides
  /\ pc' = "detect_call"
  /\ UNCHANGED <<runs, uploaded_file, metadata, time, intensity, filename, peaks_info,
                 input_text, json_files, temp_files, rendered, chain_log, diagnosis>>

NextConfig == OverrideConfig \/ DetectCall

SpecConfig == InitConfig /\ [][NextConfig]_vars

---------------------------------------------------------------------------
(* validate_cdf_file *)

\* str.lower() of a piece of a file name
Lower(piece) ==
  IF piece = ".CDF" THEN ".cdf"
  ELSE IF piece = "No peaks found" THEN "no peaks found"
  ELSE piece

\* file_path.lower().endswith('.cdf'), for a name that exists
ValidateCdfFile(name) ==
  /\ Len(name) >= 1
  /\ Lower(name[Len(name)]) = ".cdf"

---------------------------------------------------------------------------
(* Direct calls of summarize_trace *)

FileNames ==
  { <<"run1", ".cdf">>, <<"run2", ".CDF">>, <<"run3", ".cdf", ".cdf">>,
    <<"No peaks found", ".cdf">> }

\* peak dictionaries a caller can pass: heights and retention times vary
PeakPool ==
  { [ peak_index |-> r, height |-> 100 * h, retention_time |-> 100 * r,
      area |-> 100 * h, start_time |-> 100 * (r - 1), end_time |-> 100 * (r + 1) ] :
    h \in 1..MaxVal, r \in 1..2 }

InitSummarize ==
  /\ pc = "summarize_call"
  /\ config = DefaultConfig
  /\ runs = NoRuns
  /\ uploaded_file = NoUpload
  /\ metadata = ""
  /\ time = TimeGrid(3, CoarseStep, CoarseStep)
  /\ intensity \in {<<0, 1, 0>>, <<>>}
  /\ filename \in FileNames
  /\ \E n \in 0..MaxPeaks : peaks_info \in [1..n -> PeakPool]
  /\ input_text = NoText
  /\ json_files = {}
  /\ temp_files = {}
  /\ rendered = <<>>
  /\ chain_log = <<>>
  /\ diagnosis = "none"

SummarizeCall ==
  /\ pc = "summarize_call"
  /\ IF SummarizeRaises(intensity)
     THEN pc' = "summarize_raised" /\ UNCHANGED <<input_text, json_files>>
     ELSE /\ pc' = "summarize_returned"
          /\ input_text' = SummaryText(time, intensity, peaks_info, filename)
          /\ json_files' = WriteFile(json_files,
                                     JoinPath("json_output", JsonFilename(filename)),
                                     JsonData(time, intensity, peaks_info, filename))
  /\ UNCHANGED <<config, runs, uploaded_file, metadata, time, intensity, filename, peaks_info,
                 temp_files, rendered, chain_log, diagnosis>>

NextSummarize == SummarizeCall

SpecSummarize == InitSummarize /\ [][NextSummarize]_vars

---------------------------------------------------------------------------
(* main: one run of the Streamlit script *)

\* an upload: a CDF file under a name, decoding to a trace
ReadableUpload(n, x) ==
  [ name |-> n, readable |-> TRUE,
    time |-> TimeGrid(Len(x), CoarseStep, CoarseStep), intensity |-> x ]

\* an upload that load_cdf_data cannot decode
UnreadableUpload(n) ==
  [name |-> n, readable |-> FALSE, time |-> <<>>, intensity |-> <<>>]

Answers == {"leak suspected", "column bleed"}

Rendering(kind, msg) == [kind |-> kind, msg |-> msg]
ChainEvent(op, text, meta, diag) ==
  [op |-> op, text |-> text, metadata |-> meta, diagnosis |-> diag]

\* "No peaks found" in input_text: the message itself, or a report whose
\* title line carries the phrase in the file name
ContainsNoPeaksFound(text) ==
  \/ text.kind = "nopeaks"
  \/ text.kind = "summary" /\ \E i \in DOMAIN text.title : text.title[i] = "No peaks found"

\* len(input_text) of a report, counted with fixed widths: the five header
\* lines and the title line with the name pieces, then one line per peak
TextChars(text) == 130 + 16 * Len(text.title) + 50 * Len(text.lines)

\* input_text[:2000]: peak lines past the cut are lost
Truncated(text) ==
  IF TextChars(text) > MaxInputChars
  THEN [text EXCEPT !.lines =
          SubSeq(text.lines, 1, (MaxInputChars - 130 - 16 * Len(text.title)) \div 50)]
  ELSE text

\* the handler renders the error and the script goes on to the success message
HandleErrorFallsThrough ==
  /\ rendered' = Append(rendered, Rendering("error", "An error occurred"))
  /\ pc' = "main_success"

\* except Exception in main: log, render the error, fall off the end
HandleError ==
  /\ rendered' = Append(rendered, Rendering("error", "An error occurred"))
  /\ pc' = "main_failed"

InitMain ==
  /\ pc = "main_start"
  /\ config = DefaultConfig
  /\ runs = NoRuns
  /\ \/ uploaded_file = NoUpload
     \/ \E n \in FileNames : uploaded_file = UnreadableUpload(n)
     \/ \E n \in FileNames : \E len \in 0..MaxHead : \E x \in DenseTraces(len) :
          uploaded_file = ReadableUpload(n, x)
  /\ metadata \in {"", "split injection"}
  /\ time = <<>>
  /\ intensity = <<>>
  /\ filename = <<>>
  /\ peaks_info = <<>>
  /\ input_text = NoText
  /\ json_files = {}
  /\ temp_files = {}
  /\ rendered = <<>>
  /\ chain_log = <<>>
  /\ diagnosis = "none"

\* Config.validate_config, the three components, the upload form and
\* `if uploaded_file and metadata`
MainStart ==
  /\ pc = "main_start"
  /\ \/ /\ rendered' = Append(rendered, Rendering("error", "Configuration error"))
        /\ pc' = "main_stopped"
     \/ /\ uploaded_file # NoUpload /\ metadata # ""
        /\ pc' = "main_save"
        /\ UNCHANGED rendered
     \/ /\ ~(uploaded_file # NoUpload /\ metadata # "")
        /\ pc' = "main_done"
        /\ UNCHANGED rendered
  /\ UNCHANGED <<config, runs, uploaded_file, metadata, time, intensity, filename, peaks_info,
                 input_text, json_files, temp_files, chain_log, diagnosis>>

\* ui.save_uploaded_file: write the upload under its own name, or fail
SaveUploadedFile ==
  /\ pc = "main_save"
  /\ \/ /\ temp_files' = WriteFile(temp_files,
                                   JoinPath("temp_uploads", uploaded_file.name),
                                   uploaded_file)
        /\ pc' = "main_process"
        /\ UNCHANGED rendered
     \/ /\ HandleError
        /\ UNCHANGED temp_files
  /\ UNCHANGED <<config, runs, uploaded_file, metadata, time, intensity, filename, peaks_info,
                 input_text, json_files, chain_log, diagnosis>>

\* processor.process_cdf_file(cdf_path): load, detect, short-circuit or
\* summarize; any exception is re-raised into main's handler
ProcessCdfFile ==
  /\ pc = "main_process"
  /\ LET path == JoinPath("temp_uploads", uploaded_file.name)
         file == (CHOOSE f \in temp_files : f.name = path).data
     IN IF ~file.readable
        THEN /\ HandleError
             /\ UNCHANGED <<time, intensity, filename, peaks_info, input_text, json_files>>
        ELSE /\ time' = file.time
             /\ intensity' = file.intensity
             /\ IF DetectRaises(file.time, file.intensity)
                THEN /\ HandleError
                     /\ UNCHANGED <<filename, peaks_info, input_text, json_files>>
                ELSE \E peaks \in DetectPeaksAndAreas(file.time, file.intensity) :
                       LET res == ProcessResult(file.time, file.intensity, peaks,
                                                path, json_files)
                       IN /\ peaks_info' = peaks
                          /\ filename' = Basename(path)
                          /\ input_text' = res.text
                          /\ json_files' = res.files
                          /\ pc' = "main_check"
                          /\ UNCHANGED rendered
  /\ UNCHANGED <<config, runs, uploaded_file, metadata, temp_files, chain_log, diagnosis>>

\* the no-peaks branch: render the error and st.stop(), whose StopException
\* is not an Exception and leaves the script; otherwise cut the report
CheckNoPeaks ==
  /\ pc = "main_check"
  /\ IF ContainsNoPeaksFound(input_text)
     THEN /\ rendered' = Append(rendered, Rendering("error", "No peaks were detected"))
          /\ pc' = "main_stopped"
          /\ UNCHANGED input_text
     ELSE /\ input_text' = Truncated(input_text)
          /\ pc' = "main_diagnose"
          /\ UNCHANGED rendered
  /\ UNCHANGED <<config, runs, uploaded_file, metadata, time, intensity, filename, peaks_info,
                 json_files, temp_files, chain_log, diagnosis>>

\* RAG 1: create the diagnosis chain and invoke it; either call may raise
Diagnose ==
  /\ pc = "main_diagnose"
  /\ \/ /\ HandleError
        /\ UNCHANGED <<chain_log, diagnosis>>
     \/ /\ HandleError
        /\ chain_log' = Append(chain_log, ChainEvent("create_diagnosis", NoText, "", "none"))
        /\ UNCHANGED diagnosis
     \/ \E answer \in Answers :
          /\ chain_log' = chain_log \o
               << ChainEvent("create_diagnosis", NoText, "", "none"),
                  ChainEvent("invoke_diagnosis", input_text, metadata, "none") >>
          /\ diagnosis' = answer
          /\ pc' = "main_render_diagnosis"
          /\ UNCHANGED rendered
  /\ UNCHANGED <<config, runs, uploaded_file, metadata, time, intensity, filename, peaks_info,
                 input_text, json_files, temp_files>>

RenderDiagnosis ==
  /\ pc = "main_render_diagnosis"
  /\ rendered' = Append(rendered, Rendering("diagnosis", diagnosis))
  /\ pc' = "main_troubleshoot"
  /\ UNCHANGED <<config, runs, uploaded_file, metadata, time, intensity, filename, peaks_info,
                 input_text, json_files, temp_files, chain_log, diagnosis>>

\* RAG 2: create the troubleshooting chain and invoke it on the diagnosis,
\* then render the advice
Troubleshoot ==
  /\ pc = "main_troubleshoot"
  /\ \/ /\ HandleError
        /\ UNCHANGED chain_log
     \/ /\ HandleError
        /\ chain_log' = Append(chain_log,
                               ChainEvent("create_troubleshooting", NoText, "", "none"))
     \/ /\ chain_log' = chain_log \o
             << ChainEvent("create_troubleshooting", NoText, "", "none"),
                ChainEvent("invoke_troubleshooting", NoText, "", diagnosis) >>
        /\ rendered' = Append(rendered, Rendering("troubleshooting", "advice"))
        /\ pc' = "main_success"
  /\ UNCHANGED <<config, runs, uploaded_file, metadata, time, intensity, filename, peaks_info,
                 input_text, json_files, temp_files, diagnosis>>

RenderSuccess ==
  /\ pc = "main_success"
  /\ rendered' = Append(rendered, Rendering("success", "Analysis complete!"))
  /\ pc' = "main_done"
  /\ UNCHANGED <<config, runs, uploaded_file, metadata, time, intensity, filename, peaks_info,
                 input_text, json_files, temp_files, chain_log, diagnosis>>

Init == InitMain

Next ==
  \/ MainStart
  \/ SaveUploadedFile
  \/ ProcessCdfFile
  \/ CheckNoPeaks
  \/ Diagnose
  \/ RenderDiagnosis
  \/ Troubleshoot
  \/ RenderSuccess

Spec == Init /\ [][Next]_vars

---------------------------------------------------------------------------
(* Two runs of the pipeline side by side: each saves its upload and calls  *)
(* process_cdf_file; the two directories are the only state they share     *)

Runs == {1, 2}

\* the traces the uploads decode to: empty, flat, or one peak of height h
RunTraces == {<<>>} \cup { <<0, h, 0>> : h \in 0..MaxVal }

RunUploads ==
  { ReadableUpload(n, x) : n \in FileNames, x \in RunTraces }

\* the locals of a run before its first step
NewRun(upload) ==
  [ pc |-> "run_save", upload |-> upload, path |-> <<>>, time |-> <<>>,
    intensity |-> <<>>, peaks_info |-> <<>>, input_text |-> NoText ]

InitRuns ==
  /\ pc = "runs"
  /\ config = DefaultConfig
  /\ \E u1 \in RunUploads : \E u2 \in RunUploads :
       runs = [r \in Runs |-> IF r = 1 THEN NewRun(u1) ELSE NewRun(u2)]
  /\ uploaded_file = NoUpload
  /\ metadata = ""
  /\ time = <<>>
  /\ intensity = <<>>
  /\ filename = <<>>
  /\ peaks_info = <<>>
  /\ input_text = NoText
  /\ json_files = {}
  /\ temp_files = {}
  /\ rendered = <<>>
  /\ chain_log = <<>>
  /\ diagnosis = "none"

\* ui.save_uploaded_file of run r: write the upload under its own name into
\* temp_upload_dir and return the path, or fail
RunSave(r) ==
  /\ runs[r].pc = "run_save"
  /\ LET path == JoinPath("temp_uploads", runs[r].upload.name)
     IN \/ /\ temp_files' = WriteFile(temp_files, path, runs[r].upload)
           /\ runs' = [runs EXCEPT ![r].pc = "run_load", ![r].path = path]
        \/ /\ runs' = [runs EXCEPT ![r].pc = "run_failed"]
           /\ UNCHANGED temp_files
  /\ UNCHANGED <<pc, config, uploaded_file, metadata, time, intensity, filename,
                 peaks_info, input_text, json_files, rendered, chain_log, diagnosis>>

\* load_cdf_data of run r: read whatever the file at its path holds now
RunLoad(r) ==
  /\ runs[r].pc = "run_load"
  /\ LET file == (CHOOSE f \in temp_files : f.name = runs[r].path).data
     IN runs' = [runs EXCEPT ![r].pc = "run_detect",
                             ![r].time = file.time,
                             ![r].intensity = file.intensity]
  /\ UNCHANGED <<pc, config, uploaded_file, metadata, time, intensity, filename,
                 peaks_info, input_text, json_files, temp_files, rendered, chain_log,
                 diagnosis>>

\* the rest of process_cdf_file of run r: detect, then return the no-peaks
\* message or write the summary file and return the report
RunSummarize(r) ==
  /\ runs[r].pc = "run_detect"
  /\ IF DetectRaises(runs[r].time, runs[r].intensity)
     THEN /\ runs' = [runs EXCEPT ![r].pc = "run_failed"]
          /\ UNCHANGED json_files
     ELSE \E peaks \in DetectPeaksAndAreas(runs[r].time, runs[r].intensity) :
            LET res == ProcessResult(runs[r].time, runs[r].intensity, peaks,
                                     runs[r].path, json_files)
            IN /\ runs' = [runs EXCEPT ![r].pc = "run_done",
                                       ![r].peaks_info = peaks,
                                       ![r].input_text = res.text]
               /\ json_files' = res.files
  /\ UNCHANGED <<pc, config, uploaded_file, metadata, time, intensity, filename,
                 peaks_info, input_text, temp_files, rendered, chain_log, diagnosis>>

NextRuns == \E r \in Runs : RunSave(r) \/ RunLoad(r) \/ RunSummarize(r)

SpecRuns == InitRuns /\ [][NextRuns]_vars

---------------------------------------------------------------------------
(* Properties of detect_peaks_and_areas, checked under SpecDetect *)

DetectDone == pc \in {"detect_returned", "detect_raised"}
DetectReturned == pc = "detect_returned"
EqualLengths == Len(time) = Len(intensity)

\* apex indices of the emitted peak records
EmittedIdx == {peaks_info[i].peak_index : i \in DOMAIN peaks_info}

\* local maxima that meet both the height and the prominence threshold
Qualifying(x) ==
  {p \in HeightSelected(x) :
     MeetsThreshold(100 * Prominence(x, p), ProminenceThreshold100(x))}

\* C1 (as claimed): for an empty trace or arrays of different lengths the
\* call fails with an error and returns no peak list.
C1_InvalidInputRejected ==
  (DetectDone /\ (Len(intensity) = 0 \/ Len(time) # Len(intensity)))
    => pc = "detect_raised"

\* C2 (as claimed): a peak whose right half-prominence boundary, rounded up,
\* lies past the last index len(time) - 1 is never emitted.
C2_RightOverrunDropped ==
  DetectReturned =>
    \A p \in LocalMaxima(intensity) :
      CeilRightIps(intensity, p) > Len(time) - 1 => p \notin EmittedIdx

\* C3 (as claimed): emitted apexes are at least 5 samples apart, and of two
\* maxima that pass the thresholds and are fewer than 5 samples apart the
\* lower one is never emitted.
C3_OnlyHigherRetained ==
  DetectReturned =>
    /\ \A p, q \in EmittedIdx : p # q => Abs(p - q) >= PeakDistance
    /\ \A p, q \in Qualifying(intensity) :
         (Abs(p - q) < PeakDistance /\ At(intensity, p) > At(intensity, q))
           => q \notin EmittedIdx

\* C3 (amended): emitted apexes are at least 5 samples apart; a maximum is
\* emitted although a higher maximum passing the height threshold lies fewer
\* than 5 samples away only when that higher maximum itself has another
\* maximum at least as high fewer than 5 samples from it (which removed it).
C3_DistanceRule ==
  DetectReturned =>
    /\ \A p, q \in EmittedIdx : p # q => Abs(p - q) >= PeakDistance
    /\ \A p, q \in HeightSelected(intensity) :
         (Abs(p - q) < PeakDistance /\ At(intensity, p) > At(intensity, q)
            /\ q \in EmittedIdx)
           => \E r \in HeightSelected(intensity) :
                r # p /\ Abs(r - p) < PeakDistance /\ At(intensity, r) >= At(intensity, p)

\* C3 witness: two qualifying maxima of different height fewer than 5 samples
\* apart, the higher emitted and the lower not.
C3_Witness ==
  /\ DetectReturned
  /\ \E p, q \in Qualifying(intensity) :
       /\ Abs(p - q) < PeakDistance
       /\ At(intensity, p) > At(intensity, q)
       /\ p \in EmittedIdx
       /\ q \notin EmittedIdx


\* a single unimodal peak with apex k: rising to k, falling after it, both
\* ends at the same baseline level, and that level below the 95th percentile
SinglePeakAt(x, k) ==
  /\ 1 <= k /\ k <= Len(x) - 2
  /\ \A i \in 0..(k - 1) : At(x, i) <= At(x, i + 1)
  /\ \A i \in k..(Len(x) - 2) : At(x, i) >= At(x, i + 1)
  /\ At(x, k - 1) < At(x, k) /\ At(x, k) > At(x, k + 1)
  /\ At(x, 0) = At(x, Len(x) - 1)
  /\ 100 * At(x, 0) < HeightThreshold100(x)

\* C5 (as claimed): a single unimodal peak of height H at index k on a
\* baseline below the 95th percentile, at any baseline level, is returned as
\* exactly one peak with peak_index k, retention_time time[k] and height H.
C5_SinglePeakDetected ==
  (DetectReturned /\ EqualLengths) =>
    \A k \in 0..(Len(intensity) - 1) :
      SinglePeakAt(intensity, k) =>
        /\ Len(peaks_info) = 1
        /\ peaks_info[1].peak_index = k
        /\ peaks_info[1].retention_time = Round2(At(time, k), 1000)
        /\ peaks_info[1].height = Round2(At(intensity, k), 1)

IsFlat(x) == \A i, j \in DOMAIN x : x[i] = x[j]

\* C6: for every non-empty trace of constant intensity the call returns the
\* empty list and raises nothing.
C6_FlatTraceNoPeaks ==
  (DetectDone /\ Len(intensity) >= 1 /\ IsFlat(intensity))
    => (DetectReturned /\ peaks_info = <<>>)

\* C6 witness: a call on a flat trace above zero, at least 3 samples long,
\* has returned.
C6_Witness ==
  /\ DetectReturned
  /\ EqualLengths
  /\ Len(intensity) >= 3
  /\ IsFlat(intensity)
  /\ intensity[1] > 0

\* C7 (as claimed): every emitted record has 0 <= start_index < end_index
\* <= N-1, start_time < retention_time < end_time and area > 0.
C7_WellFormedStrict ==
  (DetectReturned /\ EqualLengths) =>
    \A i \in DOMAIN peaks_info :
      LET rec == peaks_info[i]
          p == rec.peak_index
      IN /\ 0 <= StartIdx(time, intensity, p)
         /\ StartIdx(time, intensity, p) < EndIdx(time, intensity, p)
         /\ EndIdx(time, intensity, p) <= Len(time) - 1
         /\ rec.start_time < rec.retention_time
         /\ rec.retention_time < rec.end_time
         /\ rec.area > 0

\* C7 (amended): every emitted record has 0 <= start_index < peak_index <
\* end_index <= N-1, so the sample times satisfy time[start] < time[peak] <
\* time[end] and the integral is > 0; the reported values, rounded to two
\* decimals, satisfy start_time <= retention_time <= end_time and area >= 0.
C7_WellFormed ==
  (DetectReturned /\ EqualLengths) =>
    \A i \in DOMAIN peaks_info :
      LET rec == peaks_info[i]
          p == rec.peak_index
          a == StartIdx(time, intensity, p)
          b == EndIdx(time, intensity, p)
      IN /\ 0 <= a /\ a < p /\ p < b /\ b <= Len(time) - 1
         /\ At(time, a) < At(time, p) /\ At(time, p) < At(time, b)
         /\ Trapezoid2(time, intensity, a, b) > 0
         /\ rec.start_time <= rec.retention_time
         /\ rec.retention_time <= rec.end_time
         /\ rec.area >= 0

\* C7 witness: a record of a well-formed trace whose rounded start time
\* equals its rounded retention time.
C7_Witness ==
  /\ DetectReturned
  /\ EqualLengths
  /\ \E i \in DOMAIN peaks_info :
       peaks_info[i].start_time = peaks_info[i].retention_time

\* C8 (as claimed): every emitted peak is a local maximum whose intensity
\* exceeds the 95th percentile and whose prominence exceeds the 90th
\* percentile of the intensity sequence of the call.
C8_ExceedsThresholds ==
  (DetectReturned /\ EqualLengths) =>
    \A p \in EmittedIdx :
      /\ p \in LocalMaxima(intensity)
      /\ 100 * At(intensity, p) > HeightThreshold100(intensity)
      /\ 100 * Prominence(intensity, p) > ProminenceThreshold100(intensity)

\* C9 (as claimed): a maximum that meets both thresholds is missing from the
\* output only when an emitted maximum at least as high lies fewer than 5
\* samples away.
C9_SuppressedOnlyByAccepted ==
  (DetectReturned /\ EqualLengths) =>
    \A q \in Qualifying(intensity) :
      q \notin EmittedIdx =>
        \E p \in EmittedIdx :
          Abs(p - q) < PeakDistance /\ At(intensity, p) >= At(intensity, q)

---------------------------------------------------------------------------
(* Properties of summarize_trace, checked under SpecSummarize *)

\* C4: the peak lines of the report are the input peaks, each once, in
\* non-increasing height order, equal heights in their input order.
C4_StableRanking ==
  pc = "summarize_returned" =>
    /\ Len(input_text.lines) = Len(peaks_info)
    /\ \E perm \in Permutations(DOMAIN peaks_info) :
         /\ \A k \in DOMAIN peaks_info :
              input_text.lines[k] = PeakLine(peaks_info[perm[k]])
         /\ \A k, l \in DOMAIN peaks_info :
              k < l =>
                /\ peaks_info[perm[k]].height >= peaks_info[perm[l]].height
                /\ (peaks_info[perm[k]].height = peaks_info[perm[l]].height
                      => perm[k] < perm[l])

\* C4 witness: a report for a list holding two different peaks of one height
\* and a lower peak in front of a higher one.
C4_Witness ==
  /\ pc = "summarize_returned"
  /\ \E i, j \in DOMAIN peaks_info :
       i < j /\ peaks_info[i].height = peaks_info[j].height
             /\ peaks_info[i] # peaks_info[j]
  /\ \E i, j \in DOMAIN peaks_info :
       i < j /\ peaks_info[i].height < peaks_info[j].height

---------------------------------------------------------------------------
(* Properties of main, checked under Spec *)

\* C10: once process_cdf_file has returned for an empty peak list, its text
\* is the no-peaks message, no summary file was written, main only shows
\* the no-peaks error and stops, and no chain is created or invoked.
C10_NoPeaksShortCircuits ==
  (input_text # NoText /\ peaks_info = <<>>) =>
    /\ input_text = NoPeaksText
    /\ json_files = {}
    /\ chain_log = <<>>
    /\ pc \in {"main_check", "main_stopped"}
    /\ pc = "main_stopped" =>
         rendered = <<Rendering("error", "No peaks were detected")>>

\* C10 witness: main has stopped after detection returned no peak for a
\* decoded, non-empty trace.
C10_Witness ==
  /\ pc = "main_stopped"
  /\ input_text = NoPeaksText
  /\ peaks_info = <<>>
  /\ Len(intensity) >= 1

---------------------------------------------------------------------------
(* Properties of the Config settings, checked under SpecConfig *)

\* C11: the detector applies the configured settings: after a setting of
\* Config was changed, the peaks of the next call are at least
\* MIN_PEAK_DISTANCE samples apart, and each reaches the HEIGHT_PERCENTILE
\* percentile of the intensities in height and the PROMINENCE_PERCENTILE
\* percentile in prominence.
C11_ConfigApplied ==
  DetectReturned =>
    /\ \A p, q \in EmittedIdx : p # q => Abs(p - q) >= config.MIN_PEAK_DISTANCE
    /\ \A p \in EmittedIdx :
         /\ MeetsThreshold(100 * At(intensity, p),
                           Percentile100(intensity, config.HEIGHT_PERCENTILE))
         /\ MeetsThreshold(100 * Prominence(intensity, p),
                           Percentile100(intensity, config.PROMINENCE_PERCENTILE))

---------------------------------------------------------------------------
(* Properties of concurrent runs, checked under SpecRuns *)

\* the report and the summary record process_cdf_file makes of an upload
OwnResult(upload, peaks) ==
  ProcessResult(upload.time, upload.intensity, peaks,
                JoinPath("temp_uploads", upload.name), {})

\* C12: runs are isolated: the report of every finished run is the report
\* of its own upload's trace, and when it has peaks the summary file kept
\* under the name derived from its upload holds its own trace.
C12_RunsIsolated ==
  \A r \in Runs :
    runs[r].pc = "run_done" =>
      \E peaks \in DetectPeaksAndAreas(runs[r].upload.time, runs[r].upload.intensity) :
        /\ runs[r].input_text = OwnResult(runs[r].upload, peaks).text
        /\ OwnResult(runs[r].upload, peaks).files \subseteq json_files

---------------------------------------------------------------------------
(* Properties of the summary file name, checked under SpecSummarize *)

\* a file name with its final extension replaced by ".json"
SwapExtension(name) == [name EXCEPT ![Len(name)] = ".json"]

\* C13: for every file name accepted as a CDF file, summarize_trace writes
\* the summary under that name with only its final extension replaced by
\* ".json".
C13_ExtensionSwapped ==
  (pc = "summarize_returned" /\ ValidateCdfFile(filename)) =>
    \E f \in json_files : f.name = JoinPath("json_output", SwapExtension(filename))

---------------------------------------------------------------------------
(* Properties of main's branches and stages, checked under Spec *)

\* main has shown the no-peaks error
NoPeaksErrorRendered ==
  \E i \in DOMAIN rendered : rendered[i] = Rendering("error", "No peaks were detected")

\* C14: whenever process_cdf_file has returned for a peak list that is not
\* empty, main goes on to the diagnosis step: it shows the no-peaks error
\* and stops only if the peak list is empty, whatever the file is named.
C14_NoPeaksBranchOnlyIfEmpty ==
  /\ NoPeaksErrorRendered => peaks_info = <<>>
  /\ (input_text # NoText /\ peaks_info # <<>>) => pc # "main_stopped"

\* the kinds of rendering shown before position i
RenderedBefore(i, kind) == \E j \in 1..(i - 1) : rendered[j].kind = kind

\* C15: the troubleshooting chain is invoked only after the diagnosis chain
\* has returned, and on exactly the diagnosis answer; the success message is
\* rendered only after the diagnosis and the troubleshooting advice; a run
\* in which a stage raised has rendered an error, and a run that rendered
\* an error never renders the success message.
C15_StageOrder ==
  /\ \A i \in DOMAIN chain_log :
       chain_log[i].op = "invoke_troubleshooting" =>
         /\ \E j \in 1..(i - 1) : chain_log[j].op = "invoke_diagnosis"
         /\ diagnosis \in Answers
         /\ chain_log[i] = ChainEvent("invoke_troubleshooting", NoText, "", diagnosis)
  /\ \A i \in DOMAIN rendered :
       rendered[i].kind = "success" =>
         /\ \E j \in 1..(i - 1) : rendered[j] = Rendering("diagnosis", diagnosis)
         /\ RenderedBefore(i, "troubleshooting")
         /\ \E k \in DOMAIN chain_log : chain_log[k].op = "invoke_troubleshooting"
  /\ pc = "main_failed" => \E i \in DOMAIN rendered : rendered[i].kind = "error"
  /\ (\E i \in DOMAIN rendered : rendered[i].kind = "error") =>
       /\ pc # "main_success"
       /\ \A i \in DOMAIN rendered : rendered[i].kind # "success"

\* C15 witness: a run that went through both chains and rendered the
\* diagnosis, the advice and the success message.
C15_Witness ==
  /\ pc = "main_done"
  /\ Len(rendered) = 3
  /\ rendered[3].kind = "success"
  /\ Len(chain_log) = 4
  /\ chain_log[4].op = "invoke_troubleshooting"

====
